---------------------------- MODULE Spec2Model ----------------------------
(***************************************************************************)
(* Cursor pagination with a cost-budget throttle and a bounded retry       *)
(* policy: Paginator (src/src/pagination.cpp), ThrottleController          *)
(* (src/src/throttle.cpp) and the response mapper (src/src/mapping.cpp).   *)
(*                                                                         *)
(* JSON values are modelled by the shapes the code distinguishes: a member *)
(* is absent, present with the expected type, or present with a type on    *)
(* which the nlohmann accessor throws json::type_error.  Numbers are       *)
(* integers (budget points, whole seconds).  A Product is its id.          *)
(***************************************************************************)
EXTENDS Integers, Sequences, FiniteSets, TLC

\* ------------------------------------------------------------------ bounds
\* totalLimit and pageSize range over 1..MaxLimit.
MaxLimit == 3
\* An arbitrary server puts at most MaxEdges edges in one page.
MaxEdges == 2
\* Longest errors array an arbitrary server sends.
MaxErrors == 2
\* Largest capacity of a leaky-bucket server; budget values are 0..MaxBudget.
MaxBudget == 3
\* Largest restore rate of a leaky-bucket server, in points per second.
MaxRate == 2
\* Most whole seconds that pass between two transport calls besides the
\* throttle's sleep (latency, backoff).
MaxLatency == 1

\* ------------------------------------------------------- program constants
kMaxAttempts == 6
DefaultMaximumAvailable == 1000
DefaultCurrentlyAvailable == 1000
DefaultRestoreRate == 50
DefaultSafetyMargin == 20

\* ------------------------------------------------------------ JSON members
Absent == [k |-> "absent", v |-> 0]
Bad == [k |-> "bad", v |-> 0]
Num(n) == [k |-> "num", v |-> n]
IsNum(m) == m.k = "num"

\* std::optional<std::string>: the empty sequence or a one-element sequence.
None == <<>>
Some(x) == <<x>>

Max2(a, b) == IF a >= b THEN a ELSE b
Min2(a, b) == IF a <= b THEN a ELSE b
\* std::ceil(a / b) for b > 0, on integers.
Ceil(a, b) == -((-a) \div b)

\* ============================================================== throttle
\* ThrottleController's fields after construction with the given margin.
NewThrottle(margin) ==
    [ mSafetyMargin       |-> margin,
      mLastRequestedCost  |-> 0,
      mMaximumAvailable   |-> DefaultMaximumAvailable,
      mCurrentlyAvailable |-> DefaultCurrentlyAvailable,
      mRestoreRate        |-> DefaultRestoreRate,
      mTotalSleep         |-> 0,
      mTotalCost          |-> 0,
      mObservationCount   |-> 0,
      mHasObserved        |-> FALSE ]

\* The "extensions" member of a response body:
\*   kind "absent"     no extensions member (or the body is not an object)
\*   kind "nocost"     extensions is an object without "cost"
\*   kind "scalar"     extensions is not an object
\*   kind "costscalar" extensions.cost is present and is not an object
\*   kind "cost"       extensions.cost is an object with members
\*                     rqc (requestedQueryCost) and ts (throttleStatus)
\* ts is [k: "absent" | "scalar" | "object", max, avail, rate].
NoTs == [k |-> "absent", max |-> Absent, avail |-> Absent, rate |-> Absent]
ScalarTs == [k |-> "scalar", max |-> Absent, avail |-> Absent, rate |-> Absent]
Ts(mx, av, rt) == [k |-> "object", max |-> mx, avail |-> av, rate |-> rt]
ExtAbsent == [kind |-> "absent", rqc |-> Absent, ts |-> NoTs]
ExtNoCost == [kind |-> "nocost", rqc |-> Absent, ts |-> NoTs]
ExtScalar == [kind |-> "scalar", rqc |-> Absent, ts |-> NoTs]
ExtCostScalar == [kind |-> "costscalar", rqc |-> Absent, ts |-> NoTs]
ExtCost(c, t) == [kind |-> "cost", rqc |-> c, ts |-> t]

\* ObsAssign assigning 0 when the member is absent.
ObsAssignZero(st, member, field) ==
    IF st.thrown THEN st
    ELSE IF member.k = "bad" THEN [st EXCEPT !.thrown = TRUE]
    ELSE [st EXCEPT !.th = [@ EXCEPT ![field] = member.v]]

\* One assignment "if (x.contains(f)) field = x[f].get<double>()" of
\* observeResponse: st is [th, thrown]; once get<double>() has thrown the
\* remaining statements of the try block are skipped.
ObsAssign(st, member, field) ==
    IF st.thrown \/ member.k = "absent" THEN st
    ELSE IF member.k = "bad" THEN [st EXCEPT !.thrown = TRUE]
    ELSE [st EXCEPT !.th = [@ EXCEPT ![field] = member.v]]

\* ObserveCounts without the addition to the cost sum.
ObserveCountsNoSum(t) ==
    [t EXCEPT !.mObservationCount = @ + 1,
              !.mHasObserved = TRUE]

ObserveCounts(t) ==
    [t EXCEPT !.mTotalCost = @ + t.mLastRequestedCost,
              !.mObservationCount = @ + 1,
              !.mHasObserved = TRUE]

\* observeResponse without the early return: a response without cost data
\* is counted like one with an empty cost object.
observeResponseNoReturn(t, ext) ==
    LET s0 == [th |-> t, thrown |-> FALSE]
        s1 == ObsAssign(s0, ext.rqc, "mLastRequestedCost")
        s2 == ObsAssign(s1, ext.ts.max, "mMaximumAvailable")
        s3 == ObsAssign(s2, ext.ts.avail, "mCurrentlyAvailable")
        s4 == ObsAssign(s3, ext.ts.rate, "mRestoreRate")
    IN IF s4.thrown THEN s4.th ELSE ObserveCounts(s4.th)

\* ThrottleController::observeResponse
observeResponse(t, ext) ==
    IF ext.kind \in {"absent", "nocost", "scalar"} THEN t
    ELSE
      LET s0 == [th |-> t, thrown |-> FALSE]
          s1 == ObsAssign(s0, ext.rqc, "mLastRequestedCost")
          s2 == ObsAssign(s1, ext.ts.max, "mMaximumAvailable")
          s3 == ObsAssign(s2, ext.ts.avail, "mCurrentlyAvailable")
          s4 == ObsAssign(s3, ext.ts.rate, "mRestoreRate")
      IN IF s4.thrown THEN s4.th ELSE ObserveCounts(s4.th)

\* SleepSeconds with the quotient rounded down.
SleepSecondsFloor(t) ==
    IF ~t.mHasObserved \/ t.mRestoreRate <= 0 THEN 0
    ELSE LET needed == t.mLastRequestedCost + t.mSafetyMargin
         IN IF t.mCurrentlyAvailable >= needed THEN 0
            ELSE Max2(0, (needed - t.mCurrentlyAvailable) \div t.mRestoreRate)

\* SleepSeconds without the "!mHasObserved" guard.
SleepSecondsUnobserved(t) ==
    IF t.mRestoreRate <= 0 THEN 0
    ELSE LET needed == t.mLastRequestedCost + t.mSafetyMargin
         IN IF t.mCurrentlyAvailable >= needed THEN 0
            ELSE Max2(0, Ceil(needed - t.mCurrentlyAvailable, t.mRestoreRate))

\* Seconds maybeSleepBeforeNextRequest blocks for in throttle state t.
SleepSeconds(t) ==
    IF ~t.mHasObserved \/ t.mRestoreRate <= 0 THEN 0
    ELSE LET needed == t.mLastRequestedCost + t.mSafetyMargin
         IN IF t.mCurrentlyAvailable >= needed THEN 0
            ELSE Max2(0, Ceil(needed - t.mCurrentlyAvailable, t.mRestoreRate))

\* maybeSleepBeforeNextRequest sleeping once per observation: a sleep clears
\* the has-observed flag.
maybeSleepOnce(t) ==
    IF SleepSeconds(t) > 0
    THEN [t EXCEPT !.mTotalSleep = @ + SleepSeconds(t), !.mHasObserved = FALSE]
    ELSE t

\* maybeSleepBeforeNextRequest crediting the budget restored while it slept.
maybeSleepRestoring(t) ==
    IF SleepSeconds(t) > 0
    THEN [t EXCEPT !.mTotalSleep = @ + SleepSeconds(t),
                   !.mCurrentlyAvailable =
                        Min2(t.mMaximumAvailable,
                             @ + SleepSeconds(t) * t.mRestoreRate)]
    ELSE t

\* maybeSleepBeforeNextRequest without "mTotalSleep += sleepSeconds".
maybeSleepUncounted(t) == t

\* ThrottleController::maybeSleepBeforeNextRequest
maybeSleepBeforeNextRequest(t) ==
    IF SleepSeconds(t) > 0
    THEN [t EXCEPT !.mTotalSleep = @ + SleepSeconds(t)]
    ELSE t

\* avgQueryCost returning the last cost in place of the mean.
avgQueryCostLast(t) ==
    IF t.mObservationCount = 0 THEN <<0, 1>>
    ELSE <<t.mLastRequestedCost, 1>>

\* ThrottleController::avgQueryCost, as the fraction <<numerator, denominator>>.
avgQueryCost(t) ==
    IF t.mObservationCount = 0 THEN <<0, 1>>
    ELSE <<t.mTotalCost, t.mObservationCount>>

\* ================================================================ mapper
\* The "errors" member of a response body: kind "absent", "nonarray" or
\* "array" with items, each item one of
\*   "msg"    an object with a string message
\*   "nomsg"  an object without a message member
\*   "badmsg" an object whose message is not a string (get<string> throws)
\*   "scalar" not an object (value() throws)
ErrorItems == {"msg", "nomsg", "badmsg", "scalar"}
ErrAbsent == [kind |-> "absent", items |-> <<>>]
ErrNonArray == [kind |-> "nonarray", items |-> <<>>]
ErrArray(items) == [kind |-> "array", items |-> items]

ErrorMessage(item) ==
    IF item = "msg" THEN "message" ELSE "Unknown GraphQL error"

\* extractGraphqlErrors: [thrown, messages]; thrown when err.value() throws.
extractGraphqlErrors(e) ==
    IF e.kind # "array" THEN [thrown |-> FALSE, messages |-> <<>>]
    ELSE IF \E i \in 1..Len(e.items) : e.items[i] \in {"badmsg", "scalar"}
         THEN [thrown |-> TRUE, messages |-> <<>>]
         ELSE [thrown |-> FALSE,
               messages |-> [i \in 1..Len(e.items) |-> ErrorMessage(e.items[i])]]

\* PageResult after construction.
EmptyPage == [products |-> <<>>, lastCursor |-> None, hasNextPage |-> FALSE]

\* The "data" member as parseProductsPage reads it before the edges:
\*   "absent"      no data member
\*   "null"        data is null
\*   "noproducts"  data has no "products" (or data is not an object)
\*   "scalar"      data.products is not an object: no edges, no pageInfo
\*   "noedges"     data.products has no "edges", or edges is not an array
\*   "edges"       data.products.edges is an array
DataKinds == {"absent", "null", "noproducts", "scalar", "noedges", "edges"}

\* ParseHead without the checks for "data" and "data.products".
ParseHeadUnchecked(kind) ==
    CASE kind \in {"null", "scalar"} -> "return"
      [] kind \in {"absent", "noproducts", "noedges"} -> "pageinfo"
      [] OTHER -> "edges"

\* ParseHead throwing on a null data as on a missing one.
ParseHeadNullThrows(kind) ==
    CASE kind \in {"absent", "noproducts", "null"} -> "throw"
      [] kind = "scalar" -> "return"
      [] kind = "noedges" -> "pageinfo"
      [] OTHER -> "edges"

\* parseProductsPage up to the edges: "throw", "return" (the empty result),
\* "edges" (iterate the array) or "pageinfo" (no array to iterate).
ParseHead(kind) ==
    CASE kind \in {"absent", "noproducts"} -> "throw"
      [] kind \in {"null", "scalar"} -> "return"
      [] kind = "noedges" -> "pageinfo"
      [] OTHER -> "edges"

\* An edge is [node, cursor]: node is Absent, Bad (parseProductNode throws)
\* or Num(id); cursor is Absent, Bad (get<string> throws) or Num(token).
\* An edge that is not an object reads as [Absent, Absent].
Edge(n, c) == [node |-> n, cursor |-> c]

\* One iteration of the loop over the edges: [thrown, page].
ParseEdge(pg, edge) ==
    IF edge.node.k = "bad" THEN [thrown |-> TRUE, page |-> pg]
    ELSE LET p1 == IF IsNum(edge.node)
                   THEN [pg EXCEPT !.products = Append(@, edge.node.v)]
                   ELSE pg
         IN IF edge.cursor.k = "bad" THEN [thrown |-> TRUE, page |-> p1]
            ELSE [thrown |-> FALSE,
                  page |-> IF IsNum(edge.cursor)
                           THEN [p1 EXCEPT !.lastCursor = Some(edge.cursor.v)]
                           ELSE p1]

\* The "pageInfo" member: "absent", "scalar" (not an object: value() throws),
\* "nohasnext" (object without hasNextPage), "badtype" (hasNextPage is not a
\* boolean: get<bool> throws), "true", "false".
PageInfos == {"absent", "scalar", "nohasnext", "badtype", "true", "false"}

ParsePageInfo(pg, info) ==
    IF info \in {"scalar", "badtype"} THEN [thrown |-> TRUE, page |-> pg]
    ELSE [thrown |-> FALSE, page |-> [pg EXCEPT !.hasNextPage = (info = "true")]]

RECURSIVE ParseEdges(_, _)
ParseEdges(st, edges) ==
    IF edges = <<>> \/ st.thrown THEN st
    ELSE ParseEdges(ParseEdge(st.page, Head(edges)), Tail(edges))

\* parseProductsPage on data = [kind, edges, pageInfo]: [thrown, page].
parseProductsPage(data) ==
    LET h == ParseHead(data.kind)
    IN CASE h = "throw" -> [thrown |-> TRUE, page |-> EmptyPage]
         [] h = "return" -> [thrown |-> FALSE, page |-> EmptyPage]
         [] OTHER ->
              LET st == IF h = "edges"
                        THEN ParseEdges([thrown |-> FALSE, page |-> EmptyPage],
                                        data.edges)
                        ELSE [thrown |-> FALSE, page |-> EmptyPage]
              IN IF st.thrown THEN st ELSE ParsePageInfo(st.page, data.pageInfo)

\* ============================================================= transport
\* What one GraphQLClient::execute call does: it returns a Response with an
\* HTTP status, or throws std::runtime_error.  what = "sentinel" is a
\* transport error whose message contains the text "Max retries exceeded"
\* (the parse-error message quotes the body it failed on); "net" is any
\* other transport error.
Status(code) == [kind |-> "status", code |-> code, what |-> ""]
TransportError(what) == [kind |-> "error", code |-> 0, what |-> what]
NoOutcome == [kind |-> "none", code |-> 0, what |-> ""]
Statuses == {200, 400, 429, 500, 503}
Outcomes == {Status(c) : c \in Statuses} \cup
            {TransportError("net"), TransportError("sentinel")}

\* Paginator::isRetryableStatus
isRetryableStatus(status) == status = 429 \/ status >= 500

\* executeWithRetry giving up one attempt later (attempt == kMaxAttempts).
executeWithRetryLate(attempt, o) ==
    IF o.kind = "status" /\ ~isRetryableStatus(o.code)
    THEN [next |-> "return", counted |-> FALSE]
    ELSE IF o.kind = "error" /\ o.what = "sentinel"
    THEN [next |-> "rethrow", counted |-> FALSE]
    ELSE IF attempt = kMaxAttempts
    THEN [next |-> "exhaust", counted |-> TRUE]
    ELSE [next |-> "retry", counted |-> TRUE]

\* executeWithRetry giving up one attempt earlier (attempt == kMaxAttempts - 2).
executeWithRetryEarly(attempt, o) ==
    IF o.kind = "status" /\ ~isRetryableStatus(o.code)
    THEN [next |-> "return", counted |-> FALSE]
    ELSE IF o.kind = "error" /\ o.what = "sentinel"
    THEN [next |-> "rethrow", counted |-> FALSE]
    ELSE IF attempt = kMaxAttempts - 2
    THEN [next |-> "exhaust", counted |-> TRUE]
    ELSE [next |-> "retry", counted |-> TRUE]

\* executeWithRetry without the re-throw of "Max retries exceeded" errors:
\* every transport error is retried.
executeWithRetryNoSentinel(attempt, o) ==
    IF o.kind = "status" /\ ~isRetryableStatus(o.code)
    THEN [next |-> "return", counted |-> FALSE]
    ELSE IF attempt = kMaxAttempts - 1
    THEN [next |-> "exhaust", counted |-> TRUE]
    ELSE [next |-> "retry", counted |-> TRUE]

\* executeWithRetry returning the body of every response, whatever its status.
executeWithRetryAnyStatus(attempt, o) ==
    IF o.kind = "status"
    THEN [next |-> "return", counted |-> FALSE]
    ELSE IF o.what = "sentinel"
    THEN [next |-> "rethrow", counted |-> FALSE]
    ELSE IF attempt = kMaxAttempts - 1
    THEN [next |-> "exhaust", counted |-> TRUE]
    ELSE [next |-> "retry", counted |-> TRUE]

\* executeWithRetry counting a retry only when another attempt follows.
executeWithRetryReissuesOnly(attempt, o) ==
    IF o.kind = "status" /\ ~isRetryableStatus(o.code)
    THEN [next |-> "return", counted |-> FALSE]
    ELSE IF o.kind = "error" /\ o.what = "sentinel"
    THEN [next |-> "rethrow", counted |-> FALSE]
    ELSE IF attempt = kMaxAttempts - 1
    THEN [next |-> "exhaust", counted |-> FALSE]
    ELSE [next |-> "retry", counted |-> TRUE]

\* One pass of the body of executeWithRetry's for loop on outcome o of the
\* transport call made at index attempt:
\*   "return"   the body is returned to the driver
\*   "retry"    backoff sleep, then the next attempt
\*   "exhaust"  "Max retries exceeded" is thrown, carrying o
\*   "rethrow"  the transport's own exception is re-thrown
\* counted: whether ++mStats.totalRetries ran.
executeWithRetry(attempt, o) ==
    IF o.kind = "status" /\ ~isRetryableStatus(o.code)
    THEN [next |-> "return", counted |-> FALSE]
    ELSE IF o.kind = "error" /\ o.what = "sentinel"
    THEN [next |-> "rethrow", counted |-> FALSE]
    ELSE IF attempt = kMaxAttempts - 1
    THEN [next |-> "exhaust", counted |-> TRUE]
    ELSE [next |-> "retry", counted |-> TRUE]

\* The exception fetchAllProducts catches from executeWithRetry.
NoException == [kind |-> "none", last |-> NoOutcome]
MaxRetriesExceeded(o) == [kind |-> "maxretries", last |-> o]
Rethrown(o) == [kind |-> "transport", last |-> o]

\* =============================================================== backoff
\* src/src/util.cpp computeBackoffMs. Its arithmetic is int64_t: a value is
\* the set of the positions of its one bits, two's complement, bit 63 the sign.
WordBits == 64
kJitterMax == 100
DefaultBaseMs == 200
DefaultMaxMs == 5000

\* The int64_t holding n, for 0 <= n < 2^31.
Int64(n) == {i \in 0..30 : (n \div 2^i) % 2 = 1}

\* x << n, the bits shifted out of the word lost.
Shl(x, n) == {i + n : i \in x} \cap 0..(WordBits - 1)

Bit(x, i) == IF i \in x THEN 1 ELSE 0

RECURSIVE AddFrom(_, _, _, _)
AddFrom(x, y, i, carry) ==
    IF i = WordBits THEN {}
    ELSE IF carry = 0 /\ \A k \in y : k < i THEN {k \in x : k >= i}
    ELSE LET s == Bit(x, i) + Bit(y, i) + carry
         IN (IF s % 2 = 1 THEN {i} ELSE {}) \cup AddFrom(x, y, i + 1, s \div 2)

\* x + y and x * y as the machine computes them: modulo 2^64. (AddFrom adds
\* bit by bit from bit i up; with no carry and no bit of y left, the rest of
\* the sum is the rest of x.)
Add(x, y) == AddFrom(x, y, 0, 0)

RECURSIVE Mul(_, _)
Mul(x, y) ==
    IF y = {} THEN {}
    ELSE LET i == CHOOSE i \in y : TRUE
         IN Add(Shl(x, i), Mul(x, y \ {i}))

\* x < y, signed.
Less(x, y) ==
    IF ((WordBits - 1) \in x) # ((WordBits - 1) \in y)
    THEN (WordBits - 1) \in x
    ELSE \E i \in y \ x : \A j \in x \ y : j < i

\* std::min(a, b)
Min(a, b) == IF Less(b, a) THEN b ELSE a

\* int64_t{1} << attempt. A count outside 0..63 is undefined: the shift
\* instruction takes the count modulo 64, a folded shift gives 0.
ShiftOne(attempt) ==
    IF attempt \in 0..(WordBits - 1) THEN {{attempt}}
    ELSE {{attempt % WordBits}, {}}

\* The jitter drawn: std::uniform_int_distribution<int64_t>(0, 100).
Jitter == 0..kJitterMax

computeBackoffMsUnclamped(attempt, baseMs, maxMs) ==
    {Add(Mul(Int64(baseMs), one), Int64(j)) :
        one \in ShiftOne(attempt), j \in Jitter}

\* The values computeBackoffMs(attempt, baseMs, maxMs) can return. A product
\* that does not fit the word is the wrapped one the multiply instruction
\* leaves.
computeBackoffMs(attempt, baseMs, maxMs) ==
    {Add(Min(Mul(Int64(baseMs), one), Int64(maxMs)), Int64(j)) :
        one \in ShiftOne(attempt), j \in Jitter}

\* No call of computeBackoffMs yet.
NoBackoff ==
    [attempt |-> 0, baseMs |-> DefaultBaseMs, maxMs |-> DefaultMaxMs,
     ms |-> Int64(0)]

\* ================================================================= state
VARIABLES
    server,       \* the peer: "flaky", "garbled", "ideal" or "bucket"
    srv,          \* the peer's state: items held, leaky bucket
    pc,           \* position in fetchAllProducts
    runsLeft,     \* calls of fetchAllProducts still to be made
    totalLimit, pageSize,
    allProducts,  \* std::vector<Product> allProducts
    cursor,       \* std::optional<std::string> cursor
    variables,    \* the request variables: [first, after]
    attempt,      \* executeWithRetry's loop index
    errors,       \* the vector extractGraphqlErrors returned
    page,         \* PageResult being parsed
    edgeIdx,      \* edges of the page iterated so far
    mStats,       \* Paginator::mStats
    th,           \* the ThrottleController
    result,       \* the vector fetchAllProducts returned
    calls,        \* transport calls made so far
    lastOutcome,  \* outcome of the latest transport call of this iteration
    caught,       \* the exception caught from executeWithRetry in this run
    stopReason,   \* why the loop of this run ended
    slept,        \* seconds the latest throttle gate slept (0: it did not)
    response,     \* what has been read of the latest response body
    backoff,      \* the latest call of computeBackoffMs and what it returned
    body,         \* the response body a mapper test passes to the mapper
    unitOps       \* operations a unit test has applied to the throttle

input == <<totalLimit, pageSize>>
locals == <<variables, attempt, errors, page, edgeIdx>>
vars == <<server, srv, pc, runsLeft, totalLimit, pageSize, allProducts, cursor,
          variables, attempt, errors, page, edgeIdx, mStats, th, result, calls,
          lastOutcome, caught, stopReason, slept, response, backoff,
          body, unitOps>>

\* The latest response body, as far as the code has looked into it: its
\* extensions, whether its errors array has entries ("some") or not ("none":
\* empty, absent or no array), the shape of its data and of its pageInfo.
\* A part not read yet is "unread".
NoResponse ==
    [ext |-> ExtAbsent, errors |-> "unread", data |-> "unread",
     info |-> "unread"]

\* A response body as the mapper reads it: data is [kind, edges, pageInfo]
\* (edges and pageInfo are read for the kinds that have them), errors is the
\* errors member.  A body that is no JSON object reads as one without
\* members.
Body(kind, edges, info, errs) ==
    [data |-> [kind |-> kind, edges |-> edges, pageInfo |-> info],
     errors |-> errs]
NoBody == Body("absent", <<>>, "absent", ErrAbsent)

NoVariables == [first |-> 0, after |-> None]

\* Paginator::Stats after construction.
NewStats == [totalFetched |-> 0, totalRequests |-> 0, totalRetries |-> 0,
             totalSleepSeconds |-> 0, avgQueryCost |-> <<0, 1>>]

\* ---------------------------------------------------------------- servers
\* The peers the driver is run against:
\*   "ideal"    holds srv.items items, answers every request with status 200
\*              and the page of exactly `first` items after the cursor
\*   "bucket"   an ideal server that also enforces a leaky bucket and
\*              reports its cost and throttle status
\*   "flaky"    serves the pages of an ideal server, but any transport call
\*              may fail or return any status
\*   "garbled"  every call returns a non-retryable status and a body of any
\*              shape
\* A server that holds n items.
ItemServer(n) ==
    [items |-> n, max |-> 0, rate |-> 0, avail |-> 0, cost |-> 0, steady |-> TRUE]
\* A leaky-bucket server that holds n items: capacity m, r points restored
\* per second, the bucket full.
BucketServer(n, m, r) ==
    [items |-> n, max |-> m, rate |-> r, avail |-> m, cost |-> 0, steady |-> TRUE]

\* The bucket after s more seconds.
Restored(s, seconds) ==
    [s EXCEPT !.avail = Min2(s.max, s.avail + seconds * s.rate)]

\* Index of the item the cursor in the request points at (0: none).
AfterIndex == IF variables.after = None THEN 0 ELSE variables.after[1]
\* Number of edges an item server puts in the page for the request.
IdealCount == Max2(0, Min2(variables.first, srv.items - AfterIndex))

\* Safety margins a ThrottleController is constructed with.
Margins == IF server = "bucket" THEN {0, 1} ELSE {DefaultSafetyMargin}

\* extensions members an arbitrary server sends the driver: none, one whose
\* throttleStatus throws after the cost was stored, a budget below the cost
\* and a budget that covers cost and margin.
AnyExts ==
    {ExtAbsent,
     ExtCost(Num(MaxBudget), Ts(Bad, Absent, Absent)),
     ExtCost(Num(MaxBudget), Ts(Absent, Num(0), Num(MaxBudget))),
     ExtCost(Num(MaxBudget), Ts(Absent, Num(DefaultMaximumAvailable), Num(MaxBudget)))}

\* The extensions member the server puts in a returned response.
ServerExts ==
    IF server = "bucket"
    THEN {ExtCost(Num(srv.cost), Ts(Num(srv.max), Num(srv.avail), Num(srv.rate)))}
    ELSE IF server = "ideal" THEN {ExtAbsent}
    ELSE AnyExts

RECURSIVE SeqsUpTo(_, _)
SeqsUpTo(S, n) ==
    IF n = 0 THEN {<<>>}
    ELSE LET shorter == SeqsUpTo(S, n - 1)
         IN shorter \cup {Append(q, x) : q \in shorter, x \in S}

ServerErrors ==
    IF server = "garbled"
    THEN {ErrAbsent, ErrNonArray} \cup
         {ErrArray(items) : items \in SeqsUpTo(ErrorItems, MaxErrors)}
    ELSE {ErrAbsent}

ServerDataKinds == IF server = "garbled" THEN DataKinds ELSE {"edges"}

\* The cursor token a garbled server gives the edge at index edgeIdx of a
\* page: distinct for every edge of a run.
NextToken == mStats.totalRequests * (MaxEdges + 1) + edgeIdx + 1
\* The id it gives the node of that edge: the records of a run are numbered
\* in the order they are sent.
NextId == Len(allProducts) + Len(page.products) + 1
Members(n) == {Absent, Bad, Num(n)}

\* Whether the edges array of the response ends after edgeIdx edges.
EdgesMayEnd == IF server = "garbled" THEN TRUE ELSE edgeIdx = IdealCount
\* The edges the array may hold at index edgeIdx.
ServerEdges ==
    IF server = "garbled"
    THEN IF edgeIdx < MaxEdges
         THEN {Edge(n, c) : n \in Members(NextId), c \in Members(NextToken)}
         ELSE {}
    ELSE IF edgeIdx < IdealCount
         THEN {Edge(Num(AfterIndex + edgeIdx + 1), Num(AfterIndex + edgeIdx + 1))}
         ELSE {}

ServerPageInfos ==
    IF server = "garbled" THEN PageInfos
    ELSE IF AfterIndex + IdealCount < srv.items THEN {"true"} ELSE {"false"}

\* ------------------------------------------------------------------- Init
InitDriver ==
    /\ pc = "idle"
    /\ totalLimit = 0 /\ pageSize = 0
    /\ allProducts = <<>> /\ cursor = None
    /\ variables = NoVariables /\ attempt = 0
    /\ errors = <<>> /\ page = EmptyPage /\ edgeIdx = 0
    /\ mStats = NewStats
    /\ \E m \in Margins : th = NewThrottle(m)
    /\ result = <<>> /\ calls = 0
    /\ lastOutcome = NoOutcome /\ caught = NoException /\ stopReason = "none"
    /\ slept = 0 /\ unitOps = 0
    /\ response = NoResponse
    /\ backoff = NoBackoff
    /\ body = NoBody

\* The servers a run may face.
Servers ==
    [flaky |-> {ItemServer(n) : n \in 1..(MaxLimit + 1)},
     garbled |-> {ItemServer(0)},
     ideal |-> {ItemServer(n) : n \in 1..(MaxLimit + 1)}]

\* The servers that enforce a cost budget; each holds enough items.
BucketServers ==
    {BucketServer(MaxLimit + 1, m, r) : m \in 1..MaxBudget, r \in 1..MaxRate}

Init ==
    /\ server \in DOMAIN Servers
    /\ srv \in Servers[server]
    /\ runsLeft = 1
    /\ InitDriver

\* A paginator facing a server that enforces a cost budget.
InitBucket ==
    /\ server = "bucket"
    /\ srv \in BucketServers
    /\ runsLeft = 1
    /\ InitDriver

\* ---------------------------------------------------------------- actions
\* fetchCount as the remaining count alone.
FetchCountRemaining(limit, size, fetched) == limit - fetched

\* fetchCount without the clamp to the remaining count.
FetchCountUnclamped(limit, size, fetched) == size

\* const int fetchCount = std::min(pageSize, remaining)
FetchCount(limit, size, fetched) == Min2(size, limit - fetched)

\* The request variables without the cursor.
RequestVariablesNoAfter(count, cur) == [first |-> count, after |-> None]

\* variables["first"] = fetchCount; variables["after"] = cursor.value() when
\* the cursor has a value.
RequestVariables(count, cur) == [first |-> count, after |-> cur]

\* totalRequests left as it was: "++mStats.totalRequests" missing.
RequestsAfterNever(next, n) == n

\* totalRequests incremented before the try block, whatever happens in it.
RequestsAfterAlways(next, n) == n + 1

\* mStats.totalRequests after executeWithRetry ended with `next`: the
\* increment follows the try block, which a caught exception leaves by break.
RequestsAfter(next, n) == IF next = "return" THEN n + 1 ELSE n

\* The locals of the loop body go out of scope.
EndIteration ==
    /\ variables' = NoVariables /\ attempt' = 0
    /\ errors' = <<>> /\ page' = EmptyPage /\ edgeIdx' = 0
    /\ lastOutcome' = NoOutcome

\* "break": control leaves the while loop.
Break(reason) ==
    /\ pc' = "finish"
    /\ stopReason' = reason
    /\ EndIteration

\* A caller invokes fetchAllProducts(totalLimit, pageSize) with positive
\* arguments; a server that serves items holds at least totalLimit of them.
Call ==
    /\ pc \in {"idle", "done"}
    /\ runsLeft > 0
    /\ runsLeft' = runsLeft - 1
    /\ \E tl \in 1..MaxLimit, ps \in 1..MaxLimit :
          /\ server # "garbled" => srv.items >= tl
          /\ totalLimit' = tl
          /\ pageSize' = ps
    /\ allProducts' = <<>>
    /\ cursor' = None
    /\ caught' = NoException
    /\ stopReason' = "none"
    /\ response' = NoResponse
    /\ pc' = "loop"
    /\ UNCHANGED <<backoff, body, server, srv, locals, mStats, th, result, calls, lastOutcome,
                   slept, unitOps>>

\* The while condition, the throttle gate and the request variables.
LoopHead ==
    /\ pc = "loop"
    /\ IF Len(allProducts) < totalLimit
       THEN /\ th' = maybeSleepBeforeNextRequest(th)
            /\ slept' = SleepSeconds(th)
            /\ srv' = Restored(srv, SleepSeconds(th))
            /\ variables' =
                 RequestVariables(
                     FetchCount(totalLimit, pageSize, Len(allProducts)), cursor)
            /\ attempt' = 0
            /\ response' = NoResponse
            /\ pc' = "exec"
            /\ UNCHANGED <<errors, page, edgeIdx, lastOutcome, stopReason>>
       ELSE /\ Break("limit")
            /\ UNCHANGED <<th, srv, slept, response>>
    /\ UNCHANGED <<backoff, body, server, runsLeft, input, allProducts, cursor, mStats, result,
                   calls, caught, unitOps>>

\* What the peer answers to one transport call: <<outcome, srv'>>.  A bucket
\* server charges the request a cost w[1] of its choosing after w[2] more
\* seconds of restoring; srv.steady records that no request so far cost more
\* than the cost last reported plus the client's safety margin.
ServerReplies ==
    CASE server = "flaky" -> {<<o, srv>> : o \in Outcomes}
      [] server = "garbled" -> {<<Status(c), srv>> : c \in {200, 400}}
      [] server = "ideal" -> {<<Status(200), srv>>}
      [] OTHER ->
           {LET s1 == [Restored(srv, w[2]) EXCEPT
                         !.steady = @ /\ (th.mHasObserved =>
                            w[1] <= th.mLastRequestedCost + th.mSafetyMargin)]
            IN IF s1.avail < w[1]
               THEN <<Status(429), s1>>
               ELSE <<Status(200),
                      [s1 EXCEPT !.avail = @ - w[1], !.cost = w[1]]>>
            : w \in (1..srv.max) \X (0..MaxLatency)}

\* One transport call of executeWithRetry and what the retry policy and the
\* driver's try/catch around it do with its outcome.
Execute ==
    /\ pc = "exec"
    /\ \E reply \in ServerReplies :
         LET o == reply[1]
             r == executeWithRetry(attempt, o)
         IN /\ srv' = reply[2]
            /\ calls' = calls + 1
            /\ mStats' = [mStats EXCEPT
                 !.totalRetries = IF r.counted THEN @ + 1 ELSE @,
                 !.totalRequests = RequestsAfter(r.next, @)]
            /\ CASE r.next = "return" ->
                      /\ pc' = "observe"
                      /\ lastOutcome' = o
                      /\ response' = NoResponse
                      /\ UNCHANGED <<locals, caught, stopReason>>
                 [] r.next = "retry" ->
                      /\ attempt' = attempt + 1
                      /\ lastOutcome' = o
                      /\ UNCHANGED <<pc, variables, errors, page, edgeIdx,
                                     caught, stopReason, response>>
                 [] OTHER ->
                      /\ caught' = IF r.next = "exhaust"
                                   THEN MaxRetriesExceeded(o) ELSE Rethrown(o)
                      /\ pc' = "finish"
                      /\ stopReason' = "failure"
                      /\ lastOutcome' = o
                      /\ UNCHANGED <<locals, response>>
    /\ UNCHANGED <<backoff, body, server, runsLeft, input, allProducts, cursor, th, result,
                   slept, unitOps>>

\* mThrottle.observeResponse(response); the Response executeWithRetry held
\* is gone.
Observe ==
    /\ pc = "observe"
    /\ \E ext \in ServerExts :
          /\ th' = observeResponse(th, ext)
          /\ response' = [response EXCEPT !.ext = ext]
    /\ pc' = "errors"
    /\ lastOutcome' = NoOutcome
    /\ UNCHANGED <<backoff, body, server, srv, runsLeft, input, allProducts, cursor, locals,
                   mStats, result, calls, caught, stopReason, slept, unitOps>>

\* extractGraphqlErrors(response); an exception it throws leaves
\* fetchAllProducts.
ExtractErrors ==
    /\ pc = "errors"
    /\ \E e \in ServerErrors :
         LET r == extractGraphqlErrors(e)
         IN /\ response' = [response EXCEPT !.errors =
                              IF e.items = <<>> THEN "none" ELSE "some"]
            /\ IF r.thrown
               THEN /\ pc' = "raised"
                    /\ UNCHANGED errors
               ELSE /\ pc' = "data"
                    /\ errors' = r.messages
    /\ UNCHANGED <<backoff, body, server, srv, runsLeft, input, allProducts, cursor, variables,
                   attempt, page, edgeIdx, mStats, th, result, calls,
                   lastOutcome, caught, stopReason, slept, unitOps>>

\* The errors check stopping whenever the response carries errors.
NoUsableDataStrict(errs, kind) == errs # <<>>

\* "if (!errors.empty()) { ... if (!response.contains("data") ||
\* response["data"].is_null()) break; }"
NoUsableData(errs, kind) == errs # <<>> /\ kind \in {"absent", "null"}

\* The no-data check under errors, the last use of the errors vector, then
\* parseProductsPage up to the edges.
ReadData ==
    /\ pc = "data"
    /\ \E kind \in ServerDataKinds :
         /\ response' = [response EXCEPT !.data = kind]
         /\ IF NoUsableData(errors, kind)
            THEN Break("nodata")
            ELSE LET h == ParseHead(kind)
                 IN CASE h = "throw" -> Break("parse")
                      [] h = "return" -> Break("empty")
                      [] OTHER ->
                           /\ pc' = h
                           /\ page' = EmptyPage
                           /\ edgeIdx' = 0
                           /\ errors' = <<>>
                           /\ UNCHANGED <<variables, attempt, lastOutcome,
                                          stopReason>>
    /\ UNCHANGED <<backoff, body, server, srv, runsLeft, input, allProducts, cursor, mStats,
                   th, result, calls, caught, slept, unitOps>>

\* One iteration of parseProductsPage's loop over the edges, or its end.
ReadEdge ==
    /\ pc = "edges"
    /\ \/ /\ EdgesMayEnd
          /\ pc' = "pageinfo"
          /\ UNCHANGED <<locals, lastOutcome, stopReason>>
       \/ \E edge \in ServerEdges :
            LET r == ParseEdge(page, edge)
            IN IF r.thrown
               THEN Break("parse")
               ELSE /\ page' = r.page
                    /\ edgeIdx' = edgeIdx + 1
                    /\ UNCHANGED <<pc, variables, attempt, errors, lastOutcome,
                                   stopReason>>
    /\ UNCHANGED <<backoff, body, server, srv, runsLeft, input, allProducts, cursor, mStats,
                   th, result, calls, caught, slept, response, unitOps>>

\* AfterPage without the last-page check.
AfterPageNoLastCheck(pg) ==
    IF pg.products = <<>> THEN "empty" ELSE "continue"

\* AfterPage without the empty-page check.
AfterPageNoEmptyCheck(pg) ==
    IF ~pg.hasNextPage THEN "lastpage" ELSE "continue"

\* What the loop body does with a parsed page: "empty" and "lastpage" break,
\* "continue" goes on to the next iteration.
AfterPage(pg) ==
    IF pg.products = <<>> THEN "empty"
    ELSE IF ~pg.hasNextPage THEN "lastpage"
    ELSE "continue"

\* The append keeping only the records of the latest page.
AppendPageOnly(all, pg) == pg.products

\* allProducts.insert(allProducts.end(), page.products.begin(),
\*                    page.products.end())
AppendPage(all, pg) == all \o pg.products

\* The cursor kept from the earlier page when the page carries none.
NextCursorRetained(cur, pg) ==
    IF pg.lastCursor = None THEN cur ELSE pg.lastCursor

\* cursor = page.lastCursor
NextCursor(cur, pg) == pg.lastCursor

\* parseProductsPage's pageInfo, then the rest of the loop body: the empty
\* page check, the append, the last page check and the cursor.
ReadPageInfo ==
    /\ pc = "pageinfo"
    /\ \E info \in ServerPageInfos :
         LET r == ParsePageInfo(page, info)
         IN /\ response' = [response EXCEPT !.info = info]
            /\ IF r.thrown
               THEN Break("parse") /\ UNCHANGED <<allProducts, cursor>>
               ELSE IF AfterPage(r.page) = "empty"
               THEN Break("empty") /\ UNCHANGED <<allProducts, cursor>>
               ELSE /\ allProducts' = AppendPage(allProducts, r.page)
                    /\ IF AfterPage(r.page) = "lastpage"
                       THEN Break("lastpage") /\ UNCHANGED cursor
                       ELSE /\ cursor' = NextCursor(cursor, r.page)
                            /\ pc' = "loop"
                            /\ EndIteration
                            /\ UNCHANGED stopReason
    /\ UNCHANGED <<backoff, body, server, srv, runsLeft, input, mStats, th, result, calls,
                   caught, slept, unitOps>>

\* PopulateStats adding the records of the run to totalFetched.
PopulateStatsAdding(stats, products, t) ==
    [stats EXCEPT !.totalFetched = @ + Len(products),
                  !.totalSleepSeconds = t.mTotalSleep,
                  !.avgQueryCost = avgQueryCost(t)]

\* PopulateStats leaving totalSleepSeconds as it was.
PopulateStatsNoSleep(stats, products, t) ==
    [stats EXCEPT !.totalFetched = Len(products),
                  !.avgQueryCost = avgQueryCost(t)]

\* "populate stats": the three assignments after the loop.
PopulateStats(stats, products, t) ==
    [stats EXCEPT !.totalFetched = Len(products),
                  !.totalSleepSeconds = t.mTotalSleep,
                  !.avgQueryCost = avgQueryCost(t)]

\* After the loop: the statistics and the return.
Finish ==
    /\ pc = "finish"
    /\ mStats' = PopulateStats(mStats, allProducts, th)
    /\ result' = allProducts
    /\ pc' = "done"
    /\ UNCHANGED <<backoff, body, server, srv, runsLeft, input, allProducts, cursor, locals,
                   th, calls, lastOutcome, caught, stopReason, slept, response,
                   unitOps>>

Next ==
    \/ Call
    \/ LoopHead
    \/ Execute
    \/ Observe
    \/ ExtractErrors
    \/ ReadData
    \/ ReadEdge
    \/ ReadPageInfo
    \/ Finish

Spec == Init /\ [][Next]_vars

\* The same system with the scheduling the code has: fetchAllProducts is one
\* sequential thread and every transport call returns, so a step that can be
\* taken is taken.
FairSpec == Spec /\ WF_vars(Next)

\* The same paginator against the servers that enforce a cost budget.
SpecBucket == InitBucket /\ [][Next]_vars

\* A caller that calls fetchAllProducts twice on one Paginator, which keeps
\* its mStats and its ThrottleController, against a flaky server that holds
\* two items.
InitTwoRuns ==
    /\ server = "flaky"
    /\ srv = ItemServer(2)
    /\ runsLeft = 2
    /\ InitDriver

SpecTwoRuns == InitTwoRuns /\ [][Next]_vars

\* ========================================================= throttle tests
\* tests/test_throttle.cpp drives a ThrottleController directly: it applies
\* observeResponse and maybeSleepBeforeNextRequest in any order.
\* Longest sequence of operations a test applies.
MaxOps == 3

\* Responses as the tests build them.  Complete cost data, as
\* makeThrottleResponse(cost, max, available, rate) builds it:
CompleteExts ==
    {ExtCost(Num(c), Ts(Num(400), Num(av), Num(rt))) :
        c \in {100, 200}, av \in {50, 200}, rt \in {-1, 0, 100}}
\* cost data with any of its members left out:
PartialExts ==
    {ExtCost(c, t) :
        c \in {Absent, Num(100)},
        t \in {NoTs} \cup {Ts(mx, av, rt) : mx \in {Absent, Num(400)},
                                            av \in {Absent, Num(50)},
                                            rt \in {Absent, Num(100)}}}
\* cost data with one part of the wrong type, the others present or absent:
MalformedExts ==
    {ExtCostScalar} \cup
    {ExtCost(c, ScalarTs) : c \in {Absent, Num(100)}} \cup
    {ExtCost(Bad, t) : t \in {NoTs, Ts(Num(400), Num(50), Num(100))}} \cup
    {ExtCost(c, Ts(Bad, Absent, Absent)) : c \in {Absent, Num(200)}} \cup
    {ExtCost(c, Ts(mx, Bad, Absent)) :
        c \in {Absent, Num(200)}, mx \in {Absent, Num(400)}} \cup
    {ExtCost(c, Ts(mx, av, Bad)) :
        c \in {Absent, Num(200)}, mx \in {Absent, Num(400)},
        av \in {Absent, Num(50)}}
\* no cost data at all:
NoCostExts == {ExtAbsent, ExtNoCost, ExtScalar}
UnitExts == CompleteExts \cup PartialExts \cup MalformedExts \cup NoCostExts

InitThrottle ==
    /\ server = "none" /\ srv = ItemServer(0) /\ runsLeft = 0
    /\ pc = "unit"
    /\ totalLimit = 0 /\ pageSize = 0
    /\ allProducts = <<>> /\ cursor = None
    /\ variables = NoVariables /\ attempt = 0
    /\ errors = <<>> /\ page = EmptyPage /\ edgeIdx = 0
    /\ mStats = NewStats
    /\ th \in {NewThrottle(0), NewThrottle(DefaultSafetyMargin)}
    /\ result = <<>> /\ calls = 0
    /\ lastOutcome = NoOutcome /\ caught = NoException /\ stopReason = "none"
    /\ slept = 0 /\ unitOps = 0
    /\ response = NoResponse
    /\ backoff = NoBackoff
    /\ body = NoBody

driver == <<server, srv, runsLeft, totalLimit, pageSize, allProducts, cursor,
            variables, attempt, errors, page, edgeIdx, mStats, result, calls,
            lastOutcome, caught, stopReason, backoff, body>>

\* tc.observeResponse(response)
UnitObserve ==
    /\ pc \in {"unit", "observed", "gated"}
    /\ unitOps < MaxOps
    /\ unitOps' = unitOps + 1
    /\ \E ext \in UnitExts :
          /\ th' = observeResponse(th, ext)
          /\ response' = [NoResponse EXCEPT !.ext = ext]
    /\ pc' = "observed"
    /\ UNCHANGED <<driver, slept>>

\* tc.maybeSleepBeforeNextRequest()
UnitGate ==
    /\ pc \in {"unit", "observed", "gated"}
    /\ unitOps < MaxOps
    /\ unitOps' = unitOps + 1
    /\ th' = maybeSleepBeforeNextRequest(th)
    /\ slept' = SleepSeconds(th)
    /\ pc' = "gated"
    /\ UNCHANGED <<driver, response>>

NextThrottle == UnitObserve \/ UnitGate

SpecThrottle == InitThrottle /\ [][NextThrottle]_vars

\* ========================================================== backoff tests
\* computeBackoffMs called as src/tests/test_util.cpp calls it: with the
\* default base and maximum or with a base and maximum of its own.
MaxAttempt == 64

BackoffParams ==
    {<<DefaultBaseMs, DefaultMaxMs>>, <<100, 500>>, <<1, 500>>, <<1000, 500>>}

InitBackoff ==
    /\ server = "none" /\ srv = ItemServer(0) /\ runsLeft = 0
    /\ pc = "unit"
    /\ totalLimit = 0 /\ pageSize = 0
    /\ allProducts = <<>> /\ cursor = None
    /\ variables = NoVariables /\ attempt = 0
    /\ errors = <<>> /\ page = EmptyPage /\ edgeIdx = 0
    /\ mStats = NewStats
    /\ th = NewThrottle(DefaultSafetyMargin)
    /\ result = <<>> /\ calls = 0
    /\ lastOutcome = NoOutcome /\ caught = NoException /\ stopReason = "none"
    /\ slept = 0 /\ unitOps = 0
    /\ response = NoResponse
    /\ body = NoBody
    /\ \E a \in 0..MaxAttempt, p \in BackoffParams :
          backoff = [attempt |-> a, baseMs |-> p[1], maxMs |-> p[2],
                     ms |-> Int64(0)]

\* auto ms = computeBackoffMs(attempt, baseMs, maxMs)
UnitBackoff ==
    /\ pc = "unit"
    /\ \E ms \in computeBackoffMs(backoff.attempt, backoff.baseMs,
                                  backoff.maxMs) :
          backoff' = [backoff EXCEPT !.ms = ms]
    /\ pc' = "backoff"
    /\ unitOps' = unitOps + 1
    /\ UNCHANGED <<server, srv, runsLeft, totalLimit, pageSize, allProducts,
                   cursor, variables, attempt, errors, page, edgeIdx, mStats,
                   th, result, calls, lastOutcome, caught, stopReason, slept,
                   response, body>>

NextBackoff == UnitBackoff

SpecBackoff == InitBackoff /\ [][NextBackoff]_vars

\* =========================================================== mapper tests
\* tests/test_mapping.cpp calls parseProductsPage and extractGraphqlErrors on
\* response bodies it builds.  The edge at index i of a body has node id i
\* and cursor token i, where it has them.
RECURSIVE EdgeArrays(_)
EdgeArrays(n) ==
    IF n = 0 THEN {<<>>}
    ELSE LET shorter == EdgeArrays(n - 1)
         IN shorter \cup
            {Append(q, Edge(nd, c)) :
                q \in {e \in shorter : Len(e) = n - 1},
                nd \in Members(n), c \in Members(n)}

ErrorArrays ==
    {ErrAbsent, ErrNonArray} \cup
    {ErrArray(items) : items \in SeqsUpTo(ErrorItems, MaxErrors)}

\* Bodies for parseProductsPage: every shape of data, with and without
\* errors beside it.
PageBodies ==
    {Body(kind, edges, info, errs) :
        kind \in {"edges"}, edges \in EdgeArrays(MaxEdges), info \in PageInfos,
        errs \in {ErrAbsent, ErrArray(<<"msg">>)}}
    \cup
    {Body("noedges", <<>>, info, errs) :
        info \in PageInfos, errs \in {ErrAbsent, ErrArray(<<"msg">>)}}
    \cup
    {Body(kind, <<>>, "absent", errs) :
        kind \in DataKinds \ {"edges", "noedges"},
        errs \in {ErrAbsent, ErrArray(<<"msg">>)}}

\* Bodies for extractGraphqlErrors: every shape of errors, beside data that
\* is absent, null or a page.
ErrorBodies ==
    {Body(kind, <<>>, "absent", errs) :
        kind \in {"absent", "null"}, errs \in ErrorArrays}
    \cup
    {Body("edges", <<Edge(Num(1), Num(1))>>, "false", errs) :
        errs \in ErrorArrays}

InitMapper ==
    /\ server = "none" /\ srv = ItemServer(0) /\ runsLeft = 0
    /\ pc = "unit"
    /\ totalLimit = 0 /\ pageSize = 0
    /\ allProducts = <<>> /\ cursor = None
    /\ variables = NoVariables /\ attempt = 0
    /\ errors = <<>> /\ page = EmptyPage /\ edgeIdx = 0
    /\ mStats = NewStats
    /\ th = NewThrottle(DefaultSafetyMargin)
    /\ result = <<>> /\ calls = 0
    /\ lastOutcome = NoOutcome /\ caught = NoException /\ stopReason = "none"
    /\ slept = 0 /\ unitOps = 0
    /\ response = NoResponse
    /\ backoff = NoBackoff
    /\ body \in PageBodies \cup ErrorBodies

mapperFrame == <<server, srv, runsLeft, totalLimit, pageSize, allProducts,
                 cursor, variables, attempt, edgeIdx, mStats, th, result,
                 calls, lastOutcome, caught, stopReason, slept, response,
                 backoff, body>>

\* auto result = parseProductsPage(response), or the exception it throws
UnitParse ==
    /\ pc = "unit"
    /\ LET r == parseProductsPage(body.data)
       IN /\ page' = r.page
          /\ pc' = IF r.thrown THEN "parsethrew" ELSE "parsed"
    /\ unitOps' = unitOps + 1
    /\ UNCHANGED <<mapperFrame, errors>>

\* auto errors = extractGraphqlErrors(response), or the exception it throws
UnitExtract ==
    /\ pc = "unit"
    /\ LET r == extractGraphqlErrors(body.errors)
       IN /\ errors' = r.messages
          /\ pc' = IF r.thrown THEN "extractthrew" ELSE "extracted"
    /\ unitOps' = unitOps + 1
    /\ UNCHANGED <<mapperFrame, page>>

NextMapper == UnitParse \/ UnitExtract

SpecMapper == InitMapper /\ [][NextMapper]_vars

\* =========================================================== retry policy
\* One logical operation: one call of executeWithRetry(query, variables),
\* attempt by attempt, with the backoff it sleeps between two attempts.  The
\* transport answers each call with any outcome.
\* A sleep of computeBackoffMs(i) with the default base and maximum.
BackoffSleeps(i) ==
    {[attempt |-> i, baseMs |-> DefaultBaseMs, maxMs |-> DefaultMaxMs,
      ms |-> ms] :
        ms \in computeBackoffMs(i, DefaultBaseMs, DefaultMaxMs)}

\* RetrySleep sleeping after every attempt that did not return a body.
RetrySleepAlways(i, next) ==
    IF next # "return" THEN BackoffSleeps(i) ELSE {NoBackoff}

\* std::this_thread::sleep_for of one pass of executeWithRetry's loop that
\* ended with `next`: the sleeps it may perform, NoBackoff for none.
RetrySleep(i, next) ==
    IF next = "retry" THEN BackoffSleeps(i) ELSE {NoBackoff}

\* The variables fetchAllProducts passes to executeWithRetry.
RetryVariables ==
    {RequestVariables(1, None), RequestVariables(2, Some(1))}

InitRetry ==
    /\ server = "none" /\ srv = ItemServer(0) /\ runsLeft = 0
    /\ pc = "exec"
    /\ totalLimit = 0 /\ pageSize = 0
    /\ allProducts = <<>> /\ cursor = None
    /\ variables \in RetryVariables /\ attempt = 0
    /\ errors = <<>> /\ page = EmptyPage /\ edgeIdx = 0
    /\ mStats = NewStats
    /\ th = NewThrottle(DefaultSafetyMargin)
    /\ result = <<>> /\ calls = 0
    /\ lastOutcome = NoOutcome /\ caught = NoException /\ stopReason = "none"
    /\ slept = 0 /\ unitOps = 0
    /\ response = NoResponse
    /\ backoff = NoBackoff
    /\ body = NoBody

\* One pass of the for loop of executeWithRetry: the transport call, the
\* retry counter, the backoff sleep, and the return, the next attempt or the
\* exception.
RetryAttempt ==
    /\ pc = "exec"
    /\ \E o \in Outcomes :
         LET r == executeWithRetry(attempt, o)
         IN /\ calls' = calls + 1
            /\ lastOutcome' = o
            /\ mStats' = [mStats EXCEPT
                 !.totalRetries = IF r.counted THEN @ + 1 ELSE @]
            /\ backoff' \in RetrySleep(attempt, r.next)
            /\ CASE r.next = "return" ->
                      /\ pc' = "returned"
                      /\ UNCHANGED <<attempt, caught>>
                 [] r.next = "retry" ->
                      /\ attempt' = attempt + 1
                      /\ UNCHANGED <<pc, caught>>
                 [] OTHER ->
                      /\ caught' = IF r.next = "exhaust"
                                   THEN MaxRetriesExceeded(o) ELSE Rethrown(o)
                      /\ pc' = "threw"
                      /\ UNCHANGED attempt
    /\ UNCHANGED <<server, srv, runsLeft, totalLimit, pageSize, allProducts,
                   cursor, variables, errors, page, edgeIdx, th, result,
                   stopReason, slept, response, body, unitOps>>

NextRetry == RetryAttempt

SpecRetry == InitRetry /\ [][NextRetry]_vars

\* ================================================================= claims
\* The records 1..n in order.
Records(n) == [i \in 1..n |-> i]
\* A step that makes a transport call.
TransportCall == pc = "exec" /\ calls' = calls + 1
\* The outcome is one the retry policy is specified to retry.
SpecRetryable(o) ==
    o.kind = "error" \/ (o.kind = "status" /\ (o.code = 429 \/ o.code >= 500))

\* One step and one state of a run, as C1 bounds them.
C1_Bounded ==
    /\ mStats.totalRequests <= totalLimit
    /\ attempt < kMaxAttempts
C1_Progress ==
    /\ (pc = "pageinfo" /\ pc' = "loop")
          => Len(allProducts') > Len(allProducts)
    /\ calls' # calls
          => /\ TransportCall
             /\ pc' = "exec" => attempt' = attempt + 1
\* C1: for positive totalLimit and pageSize and every server behaviour
\* fetchAllProducts terminates: an iteration that does not stop the loop
\* appends at least one record, at most totalLimit responses are processed,
\* and one logical operation makes its transport calls at attempt indexes
\* 0..5, one call per index.
C1_Termination ==
    /\ []C1_Bounded
    /\ [][C1_Progress]_vars
    /\ <>(pc \in {"done", "raised"})
C1_Witness ==
    /\ pc = "done"
    /\ totalLimit >= 2
    /\ mStats.totalRequests = totalLimit
    /\ mStats.totalRetries >= kMaxAttempts - 1

\* C2: at every point of a run the number of accumulated records is at most
\* totalLimit, whatever the pages hold.
C2_NeverExceedsLimit == Len(allProducts) <= totalLimit

\* C3: against a failure-free server that holds at least totalLimit items
\* and returns exactly `first` items after the cursor, the run returns the
\* first totalLimit records in server order, totalFetched = totalLimit and
\* totalRequests = ceil(totalLimit / pageSize).
C3_IdealFetch ==
    (server = "ideal" /\ pc = "done") =>
        /\ result = Records(totalLimit)
        /\ mStats.totalFetched = totalLimit
        /\ mStats.totalRequests = (totalLimit + pageSize - 1) \div pageSize
C3_Witness ==
    /\ server = "ideal" /\ pc = "done"
    /\ totalLimit = 3 /\ pageSize = 2
    /\ mStats.totalRequests = 2
    /\ result = <<1, 2, 3>>

\* No rejection so far, and a finished run has no retry and every record.
C4_NoRejection ==
    /\ lastOutcome # Status(429)
    /\ pc = "done" => (mStats.totalRetries = 0 /\ Len(result) = totalLimit)
\* C4: against a leaky-bucket server no request of the paginator is answered
\* 429, and the run ends with totalRetries = 0 and all requested records.
C4_Never429 == server = "bucket" => C4_NoRejection
\* C4 as amended: the same, as long as no request costs more than the cost
\* the server last reported plus the throttle's safety margin.
C4_Never429WhenSteady == (server = "bucket" /\ srv.steady) => C4_NoRejection
C4_Witness ==
    /\ server = "bucket" /\ srv.steady /\ pc = "done"
    /\ th.mTotalSleep > 0
    /\ mStats.totalRequests >= 2
    /\ Len(result) = totalLimit

\* C5: fetchAllProducts never raises, whatever the response body holds.
C5_NeverRaises == pc # "raised"

\* One step of the retry loop, as C6 bounds it.
C6_Step ==
    /\ calls' # calls
          => /\ TransportCall
             /\ attempt < kMaxAttempts
             /\ pc' = "exec" => attempt' = attempt + 1
    /\ (TransportCall /\ attempt = kMaxAttempts - 1 /\ SpecRetryable(lastOutcome'))
          => /\ caught'.kind # "none"
             /\ caught'.last = lastOutcome'
             /\ lastOutcome'.what # "sentinel"
                   => caught' = MaxRetriesExceeded(lastOutcome')
             /\ pc' = "finish"
    /\ (caught.kind = "none" /\ caught'.kind = "maxretries")
          => (TransportCall /\ attempt = kMaxAttempts - 1)
    /\ caught.kind # "none" => calls' = calls
\* C6: one logical operation makes at most 6 transport calls; when the 6th
\* attempt also ends in a retryable condition the policy raises "max retries
\* exceeded" carrying that attempt's status or error, only then, and no
\* further call follows it.
C6_RetryBudget == [][C6_Step]_vars
C6_Witness ==
    /\ pc = "finish"
    /\ caught = MaxRetriesExceeded(Status(503))
    /\ calls = kMaxAttempts
    /\ mStats.totalRetries = kMaxAttempts

\* The step retried the operation: another attempt follows, or the last
\* attempt ran out of attempts.
C7_Retried ==
    \/ pc' = "exec" /\ attempt' = attempt + 1
    \/ attempt = kMaxAttempts - 1 /\ caught'.kind = "maxretries"
C7_Step ==
    TransportCall =>
        /\ lastOutcome'.kind = "status"
              => /\ C7_Retried <=> (lastOutcome'.code = 429 \/ lastOutcome'.code >= 500)
                 /\ ~C7_Retried => pc' = "observe"
        /\ lastOutcome'.kind = "error" => C7_Retried
\* C7: a response is retried if and only if its status is 429 or at least
\* 500, any other status is returned after that single attempt, and a
\* transport-level failure is treated as retryable.
C7_RetryIff == [][C7_Step]_vars

\* A status that is neither success nor retryable, and the step it ends.
C8_ErrorStatus(o) ==
    /\ o.kind = "status"
    /\ ~(o.code >= 200 /\ o.code < 300)
    /\ o.code # 429 /\ o.code < 500
C8_Step ==
    (TransportCall /\ C8_ErrorStatus(lastOutcome'))
        => /\ pc' = "finish"
           /\ caught'.kind # "none"
           /\ mStats'.totalRequests = mStats.totalRequests
\* C8: a non-retryable error status (not a success, not 429, below 500)
\* consumes no further attempt and reaches the driver as a failure, not as a
\* fetched response body.
C8_ErrorStatusFails == [][C8_Step]_vars

\* The call on which the retry policy fails terminally, and what follows.
C9_Terminal ==
    /\ TransportCall
    /\ \/ lastOutcome' = TransportError("sentinel")
       \/ attempt = kMaxAttempts - 1 /\ SpecRetryable(lastOutcome')
C9_Step ==
    /\ C9_Terminal
          => /\ pc' = "finish"
             /\ caught'.kind # "none"
             /\ mStats'.totalRequests = mStats.totalRequests
             /\ th' = th
             /\ allProducts' = allProducts
    /\ caught.kind # "none"
          => /\ calls' = calls
             /\ th' = th
             /\ allProducts' = allProducts
             /\ mStats'.totalRequests = mStats.totalRequests
             /\ pc' = "done" => result' = allProducts
C9_Returned ==
    (pc = "done" /\ caught.kind # "none")
        => result = Records(Min2(totalLimit, pageSize * mStats.totalRequests))
\* C9: when the retry policy fails terminally for page k the driver issues
\* no further request, does not count the operation in totalRequests, passes
\* nothing to the throttle and returns the records of pages 1..k-1 in order.
C9_StopsOnFailure == [][C9_Step]_vars /\ []C9_Returned
C9_Witness ==
    /\ pc = "done"
    /\ caught.kind = "maxretries"
    /\ mStats.totalRequests = 1
    /\ result = <<1, 2>>

\* One call of the gate in the throttle tests.
C10_Step ==
    (pc' = "gated" /\ unitOps' # unitOps
       /\ th.mObservationCount >= 1 /\ th.mRestoreRate > 0)
    => LET deficit == th.mLastRequestedCost + th.mSafetyMargin
                        - th.mCurrentlyAvailable
       IN /\ deficit <= 0 => slept' = 0
          /\ deficit > 0 => /\ slept' * th.mRestoreRate >= deficit
                            /\ (slept' - 1) * th.mRestoreRate < deficit
          /\ th'.mTotalSleep = th.mTotalSleep + slept'
\* C10: after at least one observation and with restoreRate > 0 the gate
\* sleeps 0 seconds when available >= lastCost + safetyMargin and otherwise
\* exactly ceil((lastCost + safetyMargin - available) / restoreRate) seconds,
\* and the cumulative sleep counter grows by exactly the slept amount.
C10_SleepAmount == [][C10_Step]_vars
C10_Witness ==
    /\ pc = "gated"
    /\ th.mSafetyMargin = 0
    /\ th.mLastRequestedCost = 200
    /\ th.mCurrentlyAvailable = 50
    /\ th.mRestoreRate = 100
    /\ slept = 2
    /\ th.mTotalSleep = 2


\* A step of the throttle tests that calls the gate.
GateCall == pc' = "gated" /\ unitOps' # unitOps
\* The budget the throttle holds is short of its last cost plus margin.
Deficit(t) == t.mLastRequestedCost + t.mSafetyMargin - t.mCurrentlyAvailable

\* C11: maybeSleepBeforeNextRequest neither sleeps nor changes any state
\* when no observation has been counted or the stored restore rate is zero
\* or negative, whatever the stored cost and available budget are.
C11_GateNoOp ==
    [][(GateCall /\ (th.mObservationCount = 0 \/ th.mRestoreRate <= 0))
          => (th' = th /\ slept' = 0)]_vars
C11_Witness ==
    /\ pc = "gated"
    /\ th.mObservationCount = 0
    /\ Deficit(th) > 0
    /\ th.mRestoreRate > 0
    /\ slept = 0 /\ th.mTotalSleep = 0


\* A step of the throttle tests that calls observeResponse; the response it
\* passes is response'.
ObserveCall == pc' = "observed" /\ unitOps' # unitOps

\* C12: observing a response without cost-extension data changes no field
\* of the throttle, so neither the observation count nor the average cost,
\* however many are observed; a throttle still in its fresh state does not
\* sleep at the gate.
C12_Step ==
    /\ (ObserveCall /\ response'.ext \in NoCostExts)
          => /\ th' = th
             /\ avgQueryCost(th') = avgQueryCost(th)
    /\ (GateCall /\ th = NewThrottle(th.mSafetyMargin))
          => (slept' = 0 /\ th' = th)
C12_NoCostIgnored == [][C12_Step]_vars
C12_Witness ==
    /\ pc = "gated"
    /\ unitOps >= 3
    /\ response.ext = ExtScalar
    /\ th = NewThrottle(DefaultSafetyMargin)
    /\ avgQueryCost(th) = <<0, 1>>
    /\ slept = 0


\* C13: observeResponse on a response whose cost-extension data is malformed
\* (extensions not an object, cost not an object, a cost subfield of the
\* wrong type) is a no-op: no field of the throttle changes.
C13_MalformedIgnored ==
    [][(ObserveCall /\ response'.ext \in MalformedExts \cup {ExtScalar})
          => th' = th]_vars

\* The cost object of the response has no member of the wrong type.
WellTyped(ext) ==
    /\ ext.kind = "cost"
    /\ ext.rqc.k # "bad"
    /\ ext.ts.max.k # "bad" /\ ext.ts.avail.k # "bad" /\ ext.ts.rate.k # "bad"
\* Field f of the throttle after a response whose member for it is m.
Updated(m, f) == IF m.k = "num" THEN th'[f] = m.v ELSE th'[f] = th[f]

\* C14: observeResponse on a response with a cost object sets those of last
\* cost, capacity, available budget and restore rate whose subfields are
\* present, leaves the others at their previous values and counts the
\* response as one observation.
C14_Step ==
    (ObserveCall /\ WellTyped(response'.ext))
    => LET ext == response'.ext
       IN /\ Updated(ext.rqc, "mLastRequestedCost")
          /\ Updated(ext.ts.max, "mMaximumAvailable")
          /\ Updated(ext.ts.avail, "mCurrentlyAvailable")
          /\ Updated(ext.ts.rate, "mRestoreRate")
          /\ th'.mObservationCount = th.mObservationCount + 1
          /\ th'.mHasObserved
          /\ th'.mSafetyMargin = th.mSafetyMargin
          /\ th'.mTotalSleep = th.mTotalSleep
C14_PartialUpdate == [][C14_Step]_vars
C14_Witness ==
    /\ pc = "observed"
    /\ response.ext = ExtCost(Num(100), Ts(Absent, Num(50), Absent))
    /\ th.mLastRequestedCost = 100
    /\ th.mCurrentlyAvailable = 50
    /\ th.mMaximumAvailable = 400
    /\ th.mRestoreRate = 0
    /\ th.mObservationCount = 2

\* C15: each observed response that carries a requestedQueryCost c adds c to
\* the cost sum and 1 to the observation count, and avgQueryCost is the sum
\* divided by the count, or 0 when nothing has been counted.
C15_Step ==
    (ObserveCall /\ WellTyped(response'.ext) /\ response'.ext.rqc.k = "num")
    => /\ th'.mTotalCost = th.mTotalCost + response'.ext.rqc.v
       /\ th'.mObservationCount = th.mObservationCount + 1
C15_Mean ==
    LET avg == avgQueryCost(th)
    IN /\ avg[2] > 0
       /\ IF th.mObservationCount = 0 THEN avg[1] = 0
          ELSE avg[1] * th.mObservationCount = th.mTotalCost * avg[2]
C15_Average == [][C15_Step]_vars /\ []C15_Mean
C15_Witness ==
    /\ pc = "observed"
    /\ unitOps = 2
    /\ th.mObservationCount = 2
    /\ th.mTotalCost = 300
    /\ th.mLastRequestedCost = 200
    /\ avgQueryCost(th)[1] = 150 * avgQueryCost(th)[2]


\* The loop has been left: nothing is requested or appended any more, and
\* the accumulated records are what the run returns.
Stopped ==
    pc \in {"finish", "done"}
        => /\ calls' = calls
           /\ allProducts' = allProducts
           /\ pc' = "done" => result' = allProducts
\* The step ends the parse of a page that holds no record: data is null,
\* data.products is no object, or the edges gave no product and pageInfo
\* was read without an exception.
EmptyPageParsed ==
    \/ pc = "data" /\ response'.data \in {"null", "scalar"}
    \/ /\ pc = "pageinfo" /\ page.products = <<>>
       /\ response'.info \notin {"scalar", "badtype"}

\* C16: when a parsed page holds zero records the driver stops, whatever
\* hasNextPage the page reported: nothing is appended and no further
\* transport call is made in that run.
C16_Step ==
    /\ EmptyPageParsed => (pc' = "finish" /\ allProducts' = allProducts)
    /\ Stopped
C16_EmptyPageStops == [][C16_Step]_vars
C16_Witness ==
    /\ pc = "done"
    /\ response.data = "edges" /\ response.info = "true"
    /\ stopReason = "empty"
    /\ mStats.totalRequests = 2
    /\ Len(result) = 1 /\ totalLimit > 1

\* C17: a response that carries server-reported errors stops the driver with
\* nothing appended when its data is absent or null; when its data is
\* present the page is parsed and its records are appended exactly as for a
\* response without errors.
C17_Step ==
    /\ (pc = "data" /\ response.errors = "some"
          /\ response'.data \in {"absent", "null"})
          => (pc' = "finish" /\ allProducts' = allProducts)
    /\ (pc = "data" /\ response'.data \notin {"absent", "null"})
          => /\ pc' = CASE response'.data \in {"noproducts", "scalar"} -> "finish"
                        [] response'.data = "noedges" -> "pageinfo"
                        [] OTHER -> "edges"
             /\ pc' # "finish" => page' = EmptyPage
    /\ (pc = "pageinfo" /\ page.products # <<>>
          /\ response'.info \notin {"scalar", "badtype"})
          => allProducts' = allProducts \o page.products
    /\ Stopped
C17_ErrorsWithData == [][C17_Step]_vars
C17_Witness ==
    /\ pc = "loop"
    /\ response.errors = "some"
    /\ response.data = "edges" /\ response.info = "true"
    /\ mStats.totalRequests = 1
    /\ allProducts = <<1, 2>>

\* C18: when parsing page k fails because the response lacks data or
\* data.products, the driver stops with no further request and returns the
\* records accumulated from pages 1..k-1 unchanged and in order.
C18_Step ==
    /\ (pc = "data" /\ response'.data \in {"absent", "noproducts"})
          => (pc' = "finish" /\ allProducts' = allProducts)
    /\ Stopped
C18_ParseFailureStops == [][C18_Step]_vars
C18_Witness ==
    /\ pc = "done"
    /\ response.errors = "none" /\ response.data = "noproducts"
    /\ mStats.totalRequests = 2
    /\ result = <<1>> /\ totalLimit > 1


\* ---------------------------------------------------------------- backoff
BackoffCall == pc = "backoff"

DefaultCall ==
    /\ BackoffCall
    /\ backoff.baseMs = DefaultBaseMs /\ backoff.maxMs = DefaultMaxMs

\* min(baseMs * 2^a, maxMs) in exact arithmetic, for 1 <= baseMs and
\* maxMs < 2^30.
ExactDelay(a, baseMs, maxMs) ==
    IF a > 30 THEN maxMs
    ELSE IF baseMs >= (maxMs + 2^a - 1) \div 2^a THEN maxMs
    ELSE baseMs * 2^a

\* baseMs * 2^a fits a signed 64-bit word.
Fits(a, baseMs) == \A i \in Int64(baseMs) : i + a < WordBits - 1

\* lo <= ms <= hi
Within(ms, lo, hi) == ~Less(ms, Int64(lo)) /\ ~Less(Int64(hi), ms)

DefaultDelay == ExactDelay(backoff.attempt, DefaultBaseMs, DefaultMaxMs)

BackoffArgs == pc = "unit"

\* The values these arguments can give, and those the next attempt index can
\* give with the same base and maximum.
ThisAttemptMs ==
    computeBackoffMs(backoff.attempt, backoff.baseMs, backoff.maxMs)
NextAttemptMs ==
    computeBackoffMs(backoff.attempt + 1, backoff.baseMs, backoff.maxMs)

\* The least of a set of int64_t values.
Least(values) == CHOOSE x \in values : \A y \in values : ~Less(y, x)

\* C20: for every base, max and attempt index N the minimum possible backoff
\* is non-decreasing in N (the least value possible for N + 1 is not below
\* the least value possible for N), and for every N with base * 2^N >= max,
\* however large N is, the backoff is at least max and at most max plus the
\* jitter bound.
C20_MonotoneAndClamped ==
    /\ BackoffArgs => ~Less(Least(NextAttemptMs), Least(ThisAttemptMs))
    /\ (/\ BackoffCall
        /\ ExactDelay(backoff.attempt, backoff.baseMs, backoff.maxMs)
              = backoff.maxMs)
       => Within(backoff.ms, backoff.maxMs, backoff.maxMs + kJitterMax)


\* ----------------------------------------------------------------- mapper
\* A mapper test has called parseProductsPage on body.
ParseCalled == pc \in {"parsed", "parsethrew"}

\* C21: parseProductsPage throws when the body has no data member or data
\* has no products member; when data is null it returns the empty page (no
\* records, no cursor, hasNextPage false) without throwing, with or without
\* errors in the body.
C21_ShapeErrorOrEmpty ==
    ParseCalled =>
        /\ body.data.kind \in {"absent", "noproducts"} => pc = "parsethrew"
        /\ body.data.kind = "null"
              => /\ pc = "parsed"
                 /\ page.products = <<>>
                 /\ page.lastCursor = None
                 /\ ~page.hasNextPage
C21_Witness ==
    /\ pc = "parsed"
    /\ body.data.kind = "null"
    /\ body.errors = ErrArray(<<"msg">>)
    /\ page = EmptyPage


\* The last edge of the edges array of body.
LastEdge == body.data.edges[Len(body.data.edges)]
\* The cursor an edge carries, if it carries one.
CursorOf(edge) == IF IsNum(edge.cursor) THEN Some(edge.cursor.v) ELSE None

\* C22: for every page with at least one edge the continuation cursor that
\* parseProductsPage returns is the cursor of the last edge of the page,
\* never that of the first or of an intermediate edge.
C22_LastCursor ==
    (pc = "parsed" /\ body.data.kind = "edges" /\ body.data.edges # <<>>)
        => page.lastCursor = CursorOf(LastEdge)


\* A mapper test has called extractGraphqlErrors on body.
ExtractCalled == pc \in {"extracted", "extractthrew"}

\* C23: extractGraphqlErrors never throws, whatever the body: it returns the
\* empty list when there is no errors member or errors is no array, and
\* otherwise one message per entry, in order, the default message for an
\* entry without a message.
C23_NeverFails ==
    ExtractCalled =>
        /\ pc = "extracted"
        /\ body.errors.kind # "array" => errors = <<>>
        /\ body.errors.kind = "array"
              => /\ Len(errors) = Len(body.errors.items)
                 /\ \A i \in 1..Len(errors) :
                       errors[i] = IF body.errors.items[i] = "msg"
                                   THEN "message"
                                   ELSE "Unknown GraphQL error"


\* ----------------------------------------------------------------- driver
\* The retry policy returns a response body to the driver.
ResponseReturned == pc = "exec" /\ pc' = "observe"

\* totalRequests counts the responses the retry policy returned.
C24_Step ==
    mStats'.totalRequests =
        mStats.totalRequests + (IF ResponseReturned THEN 1 ELSE 0)
C24_Returned ==
    /\ pc = "idle" => mStats.totalRequests = 0
    /\ pc = "done"
          => /\ mStats.totalFetched = Len(result)
             /\ mStats.totalSleepSeconds = th.mTotalSleep
             /\ mStats.avgQueryCost = avgQueryCost(th)
\* C24: after fetchAllProducts returns on a fresh paginator and throttle,
\* totalFetched is the number of returned records, totalRequests the number
\* of responses the retry policy returned, and totalSleepSeconds and
\* avgQueryCost are the throttle's cumulative sleep and average cost, on
\* every stop path.
C24_Stats == [][C24_Step]_vars /\ []C24_Returned
C24_Witness ==
    /\ pc = "done"
    /\ stopReason = "failure"
    /\ mStats.totalRequests = 2
    /\ mStats.totalFetched = 2
    /\ mStats.totalSleepSeconds > 0
    /\ mStats.avgQueryCost[1] > 0


\* The step ends the parse of a page that holds records.
PageParsed ==
    /\ pc = "pageinfo" /\ page.products # <<>>
    /\ response'.info \notin {"scalar", "badtype"}

\* C25: at every point of a run the accumulated list is the concatenation,
\* in request order, of the complete record lists of the non-empty pages
\* parsed so far: a parsed page is appended whole at the end, nothing else
\* changes the list, and the records stay in the order the server sent them.
C25_Step ==
    /\ PageParsed => allProducts' = allProducts \o page.products
    /\ allProducts' # allProducts
          => \/ PageParsed
             \/ pc \in {"idle", "done"} /\ allProducts' = <<>>
C25_InOrder == allProducts = Records(Len(allProducts))
C25_Concatenation == [][C25_Step]_vars /\ []C25_InOrder
C25_Witness ==
    /\ pc = "finish" /\ stopReason = "lastpage"
    /\ server = "garbled"
    /\ mStats.totalRequests = 2
    /\ allProducts = <<1, 2, 3>>


\* The step ends the parse of a page that reports no further page: its
\* pageInfo says hasNextPage = false or it has no pageInfo.
LastPageParsed ==
    \/ pc = "pageinfo" /\ response'.info \in {"false", "absent"}
    \/ pc = "data" /\ response'.data = "scalar"

\* C26: after a page that reports hasNextPage = false, or has no pageInfo,
\* the driver appends the records of that page and makes no further
\* transport call in the run, also when fewer than totalLimit records have
\* been accumulated.
C26_Step ==
    /\ LastPageParsed
          => /\ pc' = "finish"
             /\ allProducts' = allProducts \o page.products
    /\ Stopped
C26_LastPageStops == [][C26_Step]_vars
C26_Witness ==
    /\ pc = "done"
    /\ stopReason = "lastpage"
    /\ response.info = "absent"
    /\ mStats.totalRequests = 1
    /\ result = <<1>> /\ totalLimit = 3


\* The driver adopts the cursor of the page it parsed and goes on.
CursorAdopted == pc = "pageinfo" /\ pc' = "loop"

\* C27: the first request of a run carries no `after`; every later request
\* carries as `after` the continuation cursor of the page parsed just before
\* it, unmodified: the driver's cursor is only ever the one the latest page
\* returned, and each transport call carries it.
C27_Step ==
    /\ CursorAdopted => cursor' = page.lastCursor
    /\ cursor' # cursor => (CursorAdopted \/ pc \in {"idle", "done"})
    /\ TransportCall
          => /\ variables.after = cursor
             /\ mStats.totalRequests = 0 => variables.after = None
    /\ pc = "idle" => cursor = None
C27_CursorEchoed == [][C27_Step]_vars
C27_Witness ==
    /\ pc = "observe"
    /\ server = "ideal"
    /\ pageSize = 2
    /\ mStats.totalRequests = 2
    /\ variables.after = Some(2)

\* C28: every request's `first` is min(pageSize, totalLimit - accumulated
\* count at the time of the request); with positive totalLimit and pageSize
\* it is at least 1 and at most pageSize.
C28_Step ==
    TransportCall
        => /\ variables.first = Min2(pageSize, totalLimit - Len(allProducts))
           /\ variables.first >= 1
           /\ variables.first <= pageSize
C28_FirstIsClamped == [][C28_Step]_vars
C28_Witness ==
    /\ pc = "observe"
    /\ totalLimit = 3 /\ pageSize = 2
    /\ Len(allProducts) = 2
    /\ variables.first = 1


\* ----------------------------------------------------------- retry policy
\* The outcome is a condition the retry policy retries: a retryable status
\* or a transport error other than one quoting "Max retries exceeded".
Retried(o) == SpecRetryable(o) /\ o.what # "sentinel"

\* C29: within one logical operation, after a retryable condition on attempt
\* i with attempts remaining the policy sleeps one backoff computed for
\* index i and only then issues attempt i + 1 with the same variables; after
\* the final failed attempt and after a successful one it does not sleep.
C29_Step ==
    TransportCall =>
        /\ variables' = variables
        /\ IF Retried(lastOutcome') /\ attempt < kMaxAttempts - 1
           THEN /\ backoff'.attempt = attempt
                /\ backoff'.baseMs = DefaultBaseMs
                /\ backoff'.maxMs = DefaultMaxMs
                /\ Within(backoff'.ms,
                          ExactDelay(attempt, DefaultBaseMs, DefaultMaxMs),
                          ExactDelay(attempt, DefaultBaseMs, DefaultMaxMs)
                             + kJitterMax)
                /\ pc' = "exec" /\ attempt' = attempt + 1
                /\ calls' = attempt'
           ELSE /\ backoff' = NoBackoff
                /\ pc' # "exec"
C29_BackoffBetweenAttempts == [][C29_Step]_vars
C29_Witness ==
    /\ pc = "exec"
    /\ attempt = 2
    /\ lastOutcome = Status(503)
    /\ backoff.attempt = 1
    /\ backoff.ms = Int64(450)
    /\ variables = RequestVariables(2, Some(1))


\* C30: the retry counter is incremented only when a retryable condition
\* occurs and attempts remain: within one logical operation it equals the
\* number of re-issued attempts, and it is at most kMaxAttempts - 1, also
\* when the operation ended in exhaustion.
C30_CountsReissues ==
    /\ mStats.totalRetries = attempt
    /\ mStats.totalRetries <= kMaxAttempts - 1


\* --------------------------------------------------------- order of events
\* The positions of the loop body after mThrottle.observeResponse.
AfterObserve == {"errors", "data", "edges", "pageinfo"}
\* The reasons for which the loop stops after a response was returned.
StopsAfterResponse == {"nodata", "parse", "empty", "lastpage"}

\* C31: in every loop iteration the throttle gate, its sleep included,
\* completes before the iteration's first transport call; transport calls
\* are made one at a time; each response the retry policy returns is counted
\* in totalRequests and passed to the throttle's observe before error
\* extraction and parsing, also when the iteration then stops the loop.
C31_Step ==
    /\ calls' # calls
          => /\ pc = "exec" /\ calls' = calls + 1
             /\ th' = th /\ slept' = slept
    /\ (slept' # slept \/ th'.mTotalSleep # th.mTotalSleep)
          => /\ pc = "loop" /\ pc' = "exec"
             /\ attempt' = 0 /\ calls' = calls
             /\ th'.mTotalSleep = th.mTotalSleep + slept'
    /\ (pc = "loop" /\ pc' = "exec") => slept' = SleepSeconds(th)
    /\ ResponseReturned => mStats'.totalRequests = mStats.totalRequests + 1
    /\ pc = "observe"
          => /\ pc' = "errors"
             /\ th' = observeResponse(th, response'.ext)
             /\ calls' = calls
             /\ response'.errors = "unread" /\ response'.data = "unread"
    /\ (pc' = "errors" /\ pc # "errors") => pc = "observe"
    /\ response'.errors \notin {response.errors, "unread"} => pc = "errors"
    /\ response'.data \notin {response.data, "unread"} => pc = "data"
    /\ response'.info \notin {response.info, "unread"} => pc = "pageinfo"
    /\ (pc' \in AfterObserve /\ pc' # pc) => pc \in AfterObserve \cup {"observe"}
    /\ (stopReason' \in StopsAfterResponse /\ stopReason = "none")
          => pc \in AfterObserve
    /\ pc' = "raised" => pc = "errors"
C31_Gated == pc = "exec" => slept = SleepSeconds(th)
C31_Observed ==
    (/\ \/ pc \in AfterObserve
        \/ pc \in {"finish", "done", "raised"} /\ stopReason \in StopsAfterResponse
        \/ pc = "raised"
     /\ IsNum(response.ext.rqc))
        => /\ th.mLastRequestedCost = response.ext.rqc.v
           /\ mStats.totalRequests >= 1
C31_EventOrder == [][C31_Step]_vars /\ []C31_Gated /\ []C31_Observed
C31_Witness ==
    /\ pc = "finish"
    /\ stopReason = "parse"
    /\ mStats.totalRequests = 2
    /\ slept > 0
    /\ th.mObservationCount = 2
    /\ th.mTotalSleep = slept


\* ---------------------------------------------------- the gate's footprint
\* C32: maybeSleepBeforeNextRequest changes nothing but the cumulative sleep
\* counter: last cost, capacity, available budget, restore rate, cost sum,
\* observation count and the has-observed flag are the same after the call
\* as before it, whether or not it slept.
C32_Step ==
    GateCall
        => /\ th'.mLastRequestedCost = th.mLastRequestedCost
           /\ th'.mMaximumAvailable = th.mMaximumAvailable
           /\ th'.mCurrentlyAvailable = th.mCurrentlyAvailable
           /\ th'.mRestoreRate = th.mRestoreRate
           /\ th'.mTotalCost = th.mTotalCost
           /\ th'.mObservationCount = th.mObservationCount
           /\ th'.mHasObserved = th.mHasObserved
           /\ th'.mSafetyMargin = th.mSafetyMargin
           /\ slept' = 0 => th' = th
C32_GateChangesSleepOnly == [][C32_Step]_vars
C32_Witness ==
    /\ pc = "gated"
    /\ slept > 0
    /\ th.mTotalSleep = 2 * slept
    /\ th.mCurrentlyAvailable = 50
    /\ th.mObservationCount = 1


\* ------------------------------------------------- cursor without records
\* C33: every page result parseProductsPage produces has a continuation
\* cursor only if it contains at least one record: a page with zero records
\* never carries a cursor, whatever the edges list looks like (edges without
\* a node, edges without a cursor).
C33_CursorOnlyWithRecords ==
    pc = "parsed" => (page.products = <<>> => page.lastCursor = None)


\* ------------------------------------------------------ accounting of calls
\* C34: in a run in which every transport failure is an ordinary transport
\* error (none quotes "Max retries exceeded", which is re-thrown uncounted and
\* recorded in caught), the number of transport calls made equals
\* totalRequests + totalRetries: every call is counted once, as a returned
\* response or as a retry, the last attempt of an exhausted operation
\* included.
C34_CallsCounted ==
    caught.kind # "transport"
        => calls = mStats.totalRequests + mStats.totalRetries
C34_Witness ==
    /\ pc = "done"
    /\ caught = MaxRetriesExceeded(TransportError("net"))
    /\ mStats.totalRequests = 1
    /\ mStats.totalRetries = kMaxAttempts + 1
    /\ calls = kMaxAttempts + 2


\* ------------------------------------------- retried responses and throttle
\* The fields of the throttle the gate reads and the observations it counted.
Budget(t) ==
    <<t.mCurrentlyAvailable, t.mRestoreRate, t.mLastRequestedCost,
      t.mObservationCount>>

\* C35: responses with a retryable status (429 or at least 500) are never
\* passed to the throttle: throughout the retry attempts of one logical
\* operation the throttle's available budget, restore rate, last cost and
\* observation count are unchanged and no throttle sleep occurs, whatever
\* the retried responses carry.
C35_Step ==
    /\ (TransportCall /\ lastOutcome'.kind = "status"
          /\ isRetryableStatus(lastOutcome'.code))
          => pc' # "observe"
    /\ pc = "exec"
          => /\ Budget(th') = Budget(th)
             /\ th'.mTotalSleep = th.mTotalSleep
             /\ slept' = slept
    /\ Budget(th') # Budget(th)
          => /\ pc = "observe"
             /\ lastOutcome.kind = "status"
             /\ ~isRetryableStatus(lastOutcome.code)
C35_RetriedNotObserved == [][C35_Step]_vars
C35_Witness ==
    /\ pc = "exec"
    /\ attempt = 3
    /\ lastOutcome = Status(429)
    /\ th.mObservationCount = 1
    /\ slept > 0
    /\ th.mTotalSleep = slept


\* ------------------------------------------------------- the repeated sleep
\* The throttle has counted an observation and holds a budget short of its
\* last cost plus margin, with a positive restore rate.
Short(t) == t.mHasObserved /\ Deficit(t) > 0 /\ t.mRestoreRate > 0
\* The driver's loop passes the throttle gate and goes on to the request.
DriverGate == pc = "loop" /\ pc' = "exec"

\* C36: once a counted observation has left available < lastCost +
\* safetyMargin with restoreRate > 0, and as long as observe is a no-op on
\* the later responses, the gate sleeps ceil(deficit / restoreRate) seconds
\* before every subsequent request of the run: a completed sleep leaves the
\* stored budget, cost and rate as they were, so the next gate finds the same
\* deficit.
C36_Step ==
    /\ (DriverGate /\ Short(th))
          => /\ slept' = Ceil(Deficit(th), th.mRestoreRate)
             /\ slept' > 0
             /\ th'.mTotalSleep = th.mTotalSleep + slept'
             /\ Short(th')
             /\ Deficit(th') = Deficit(th)
             /\ th'.mRestoreRate = th.mRestoreRate
    /\ (Short(th) /\ pc # "loop" /\ ~(pc = "observe" /\ th' # th))
          => /\ Short(th')
             /\ Deficit(th') = Deficit(th)
             /\ th'.mRestoreRate = th.mRestoreRate
C36_SleptBeforeRequest ==
    (pc = "exec" /\ Short(th)) => slept = Ceil(Deficit(th), th.mRestoreRate)
C36_SleepsAgain == [][C36_Step]_vars /\ []C36_SleptBeforeRequest
C36_Witness ==
    /\ pc = "exec"
    /\ mStats.totalRequests = 2
    /\ th.mObservationCount = 1
    /\ Short(th)
    /\ slept = Ceil(Deficit(th), th.mRestoreRate)
    /\ th.mTotalSleep = 2 * slept


\* ------------------------------------------------------ the cursor is lost
\* C37: when a non-empty page with hasNextPage = true carries no cursor on
\* any of its edges, the driver's cursor becomes absent and the next request
\* is sent without `after`: a cursor adopted from an earlier page is
\* discarded, not retained.
C37_Step ==
    /\ (CursorAdopted /\ page.lastCursor = None)
          => /\ Len(allProducts') > Len(allProducts)
             /\ response'.info = "true"
             /\ cursor' = None
    /\ (DriverGate /\ cursor = None) => variables'.after = None
    /\ pc \notin {"pageinfo", "idle", "done"} => cursor' = cursor
C37_CursorDiscarded == [][C37_Step]_vars
C37_Witness ==
    /\ pc = "exec"
    /\ mStats.totalRequests = 2
    /\ Len(allProducts) = 2
    /\ cursor = None
    /\ variables = RequestVariables(1, None)


\* ------------------------------------------------ two runs on one Paginator
\* fetchAllProducts is called again on the same Paginator.
SecondCall == pc = "done" /\ pc' = "loop"
\* fetchAllProducts returns.
Returns == pc = "finish" /\ pc' = "done"

\* C38: when fetchAllProducts is called twice on the same Paginator,
\* totalRequests and totalRetries continue from the first run's values and
\* are never reset, totalFetched is overwritten with the record count of the
\* second run alone, and totalSleepSeconds and avgQueryCost are those of the
\* shared throttle, over its whole history.
C38_Step ==
    /\ SecondCall => (mStats' = mStats /\ th' = th /\ allProducts' = <<>>)
    /\ mStats'.totalRequests >= mStats.totalRequests
    /\ mStats'.totalRetries >= mStats.totalRetries
    /\ th'.mTotalSleep >= th.mTotalSleep
    /\ th'.mObservationCount >= th.mObservationCount
    /\ th'.mTotalCost >= th.mTotalCost
    /\ Returns
          => /\ mStats'.totalRequests = mStats.totalRequests
             /\ mStats'.totalRetries = mStats.totalRetries
             /\ mStats'.totalFetched = Len(allProducts)
             /\ mStats'.totalSleepSeconds = th.mTotalSleep
             /\ mStats'.avgQueryCost = avgQueryCost(th)
             /\ result' = allProducts
C38_Returned ==
    pc = "done"
        => /\ mStats.totalFetched = Len(result)
           /\ mStats.totalSleepSeconds = th.mTotalSleep
           /\ mStats.avgQueryCost = avgQueryCost(th)
           /\ (caught.kind # "transport" /\ runsLeft = 1)
                 => calls = mStats.totalRequests + mStats.totalRetries
           /\ calls - 2 <= mStats.totalRequests + mStats.totalRetries
           /\ mStats.totalRequests + mStats.totalRetries <= calls
C38_StatsAcrossRuns == [][C38_Step]_vars /\ []C38_Returned
C38_Witness ==
    /\ pc = "done" /\ runsLeft = 0
    /\ totalLimit = 1
    /\ result = <<1>>
    /\ mStats.totalFetched = 1
    /\ mStats.totalRequests = 3
    /\ mStats.totalRetries = 2
    /\ calls = 5
    /\ th.mObservationCount = 3
    /\ mStats.totalSleepSeconds > 0
    /\ mStats.avgQueryCost = <<3 * MaxBudget, 3>>


\* ------------------------------------------ an observation without a cost
\* observeResponse is called on a response whose cost is an object without
\* requestedQueryCost and without a member of the wrong type.
CostlessObserve ==
    ObserveCall /\ WellTyped(response'.ext) /\ response'.ext.rqc = Absent
\* Two averages, each a fraction, are the same number.
SameAverage(a, b) == a[1] * b[2] = b[1] * a[2]
\* The response is counted and the stored last cost is added to the sum.
CountedWithLastCost ==
    /\ th'.mObservationCount = th.mObservationCount + 1
    /\ th'.mTotalCost = th.mTotalCost + th.mLastRequestedCost
    /\ th'.mLastRequestedCost = th.mLastRequestedCost
    /\ th'.mHasObserved
    /\ avgQueryCost(th') =
          <<th.mTotalCost + th.mLastRequestedCost, th.mObservationCount + 1>>

\* C39 as stated: an observed response whose cost object has no
\* requestedQueryCost is counted as an observation and adds the stored last
\* cost (0 if none was stored) to the cost sum, so it sets the has-observed
\* flag and changes the average cost.
C39_ChangesAverage ==
    [][CostlessObserve
          => /\ CountedWithLastCost
             /\ ~SameAverage(avgQueryCost(th'), avgQueryCost(th))]_vars

\* C39, amended: such a response is counted as an observation and adds the
\* stored last cost to the cost sum, so it sets the has-observed flag and the
\* average becomes (sum + last cost) / (count + 1), which differs from the
\* previous average exactly when the stored last cost does.
C39_Step ==
    CostlessObserve
        => /\ CountedWithLastCost
           /\ SameAverage(avgQueryCost(th'), avgQueryCost(th))
                 <=> SameAverage(<<th.mLastRequestedCost, 1>>, avgQueryCost(th))
C39_CountedWithLastCost == [][C39_Step]_vars
C39_Witness ==
    /\ pc = "observed"
    /\ response.ext = ExtCost(Absent, Ts(Absent, Num(50), Absent))
    /\ th.mLastRequestedCost = 200
    /\ th.mObservationCount = 3
    /\ th.mTotalCost = 500
    /\ avgQueryCost(th) = <<500, 3>>


\* ------------------------------------------------- the sentinel is re-thrown
\* C40: a transport failure whose message contains "Max retries exceeded" is
\* not retried: on any attempt, the first included, it propagates out of the
\* retry policy at once, without an increment of the retry counter and
\* without a backoff sleep.
C40_Step ==
    (TransportCall /\ lastOutcome' = TransportError("sentinel"))
        => /\ pc' = "threw"
           /\ caught' = Rethrown(TransportError("sentinel"))
           /\ mStats'.totalRetries = mStats.totalRetries
           /\ backoff' = NoBackoff
           /\ attempt' = attempt
C40_Propagated ==
    caught = Rethrown(TransportError("sentinel"))
        => /\ pc = "threw"
           /\ calls = attempt + 1
           /\ mStats.totalRetries = attempt
           /\ backoff = NoBackoff
=============================================================================
